---- MODULE Spec2Model ----
(***************************************************************************)
(* A model of lib/priority-queue.c: a min-priority queue kept as a binary  *)
(* heap in a resizable array of pointers to separately allocated nodes.    *)
(*                                                                         *)
(* A queue is the record [current_size, capacity, heap] of struct PQ_pq;   *)
(* heap is the backing array, a function from the allocated indices to     *)
(* node addresses.  Node memory is the sequence nodes: the address of a    *)
(* node is its position, malloc appends, free marks the node "freed".      *)
(* Every library function is an operator on a machine record               *)
(*   [q, nodes, status, ret, acc, sift, swaps, rel, blocks]                *)
(* (the queue operated on, the node memory, whether the process runs, the  *)
(* value returned, the array indices accessed, those of them that          *)
(* _shift_up and _shift_down accessed, the swaps these made, the calls of  *)
(* free so far, the blocks allocated for the backing array), so that       *)
(* PQ_heapify is the composition of PQ_create and PQ_enqueue that the code *)
(* makes it.                                                               *)
(***************************************************************************)
EXTENDS Integers, Sequences, FiniteSets

VARIABLES
    q,       \* the queue under test (struct PQ_pq)
    nodes,   \* node memory: Seq of [data, priority, st]
    status,  \* "ok" | "exited" (exit(1)) | "ub" (undefined behaviour happened)
    ret,     \* what the last call returned
    acc,     \* indices of the backing array the last call read or wrote
    sift,    \* the indices among acc that _shift_up or _shift_down accessed
    swaps,   \* the number of swaps _shift_up or _shift_down made in the last call
    rel,     \* the calls of free so far, in order: Seq of [kind, addr]
    blocks,  \* the blocks allocated for the array of q: [st, cur], see Malloc
    last,    \* the last call: [op, pre], pre = current_size when it was called
    out,     \* the elements extracted from q so far, in order
    phase,   \* the caller's scenario position
    arr,     \* the input array given to PQ_heapify
    built,   \* the queue returned by PQ_heapify(arr)
    todo,    \* indices of arr not yet enqueued into q one at a time
    inorder, \* TRUE while q received the elements of arr in array order
    out2     \* the elements extracted from built so far, in order

vars == <<q, nodes, status, ret, acc, sift, swaps, rel, blocks, last, out, phase, arr, built, todo, inorder, out2>>

(***************************************************************************)
(* Program constants and bounds of the model.                              *)
(***************************************************************************)
PQ_INITIAL_SIZE == 10
PQ_INCREMENT_SIZE == 10

MaxNodes == 4     \* nodes ever allocated in a run of Spec
MaxPrio == 3      \* priorities are 1..MaxPrio
MaxArr == 2       \* longest array PQ_heapify is given in Init of Spec
MaxSort == 4      \* elements of a sorted-extraction run (distinct priorities)
MaxGrow == 11     \* elements of a growth run; above PQ_INITIAL_SIZE
MaxBuild == 3     \* longest array of a build-versus-insert run

Data == {1, 2}    \* payloads where the caller picks them; the code never reads one
Prio == 1..MaxPrio
Pairs == [data : Data, priority : Prio]

Garbage == 0      \* an array slot malloc/realloc left uninitialised
NullHeap == [i \in {} |-> Garbage]   \* no storage: a NULL heap pointer
NoQueue == [current_size |-> 0, capacity |-> 0, heap |-> NullHeap]
NoRet == [kind |-> "none", v |-> 0]
Crash == [kind |-> "crash", v |-> 0]

(***************************************************************************)
(* Index arithmetic.  C's integer division truncates toward zero.          *)
(***************************************************************************)
\* A parent that is the slot before: the array becomes a sorted list.
_parent_prev(i) == IF i >= 1 THEN i - 1 ELSE 0

_parent(i) == IF i >= 1 THEN (i - 1) \div 2 ELSE 0

_left_child(i) == (2 * i) + 1

_right_child(i) == (2 * i) + 2

\* A swap that loses its temporary: slot b keeps its old pointer.
_swap_no_tmp(heap, a, b) == [heap EXCEPT ![a] = heap[b]]

_swap(heap, a, b) == [heap EXCEPT ![a] = heap[b], ![b] = heap[a]]

(***************************************************************************)
(* Memory accesses.  s.q.heap[i]->priority is defined only when i is an    *)
(* index of the allocation, the slot was written, and the node it points   *)
(* to has not been freed; anything else is undefined behaviour.            *)
(***************************************************************************)
InArray(s, i) == i \in DOMAIN s.q.heap

Deref(s, p) == p \in 1..Len(s.nodes) /\ s.nodes[p].st = "live"

SlotOK(s, i) == InArray(s, i) /\ Deref(s, s.q.heap[i])

PriorityAt(s, i) == s.nodes[s.q.heap[i]].priority

DataAt(s, i) == s.nodes[s.q.heap[i]].data

Touch(s, S) == [s EXCEPT !.acc = @ \cup S]

\* An access made by _shift_up or _shift_down.
Sift(s, S) == [s EXCEPT !.acc = @ \cup S, !.sift = @ \cup S]

\* The state a public call starts from: nothing accessed or returned yet.
Entry(s) == [s EXCEPT !.acc = {}, !.ret = NoRet, !.sift = {}, !.swaps = 0]

UB(s) == [s EXCEPT !.status = "ub"]

Running(s) == s.status = "ok"

(***************************************************************************)
(* free(p) of a node: defined only for a node that is allocated and not    *)
(* yet freed; a second free of a node, or a free of an uninitialised       *)
(* pointer, is undefined behaviour.  Every call is logged in rel.          *)
(***************************************************************************)
Released(kind, addr) == [kind |-> kind, addr |-> addr]

free(s, p) ==
    LET t == [s EXCEPT !.rel = Append(@, Released("node", p))]
    IN IF ~Running(s) THEN s
       ELSE IF ~Deref(s, p) THEN UB(t)
       ELSE [t EXCEPT !.nodes[p].st = "freed"]

(***************************************************************************)
(* The blocks allocated for the backing array of a queue: st[b] is "live"  *)
(* or "freed" for the b-th block, cur is the block q->heap points to (0:   *)
(* none, a NULL or dangling pointer).  An assignment q->heap = malloc(...) *)
(* leaves the block q->heap pointed to as it is; realloc releases it (a    *)
(* resize in place is a release and an allocation at the same address);    *)
(* free(q->heap) releases it.                                              *)
(***************************************************************************)
NoBlocks == [st |-> <<>>, cur |-> 0]

Malloc(b) == [st |-> Append(b.st, "live"), cur |-> Len(b.st) + 1]

FreeBlock(b) == [b EXCEPT !.st = IF b.cur \in 1..Len(b.st)
                                 THEN [@ EXCEPT ![b.cur] = "freed"]
                                 ELSE @]

Realloc(b) == Malloc(FreeBlock(b))

(***************************************************************************)
(* _shift_up (lines 86-91): while i > 0 and the parent's priority is       *)
(* greater, swap with the parent and continue from the parent.             *)
(***************************************************************************)
\* A sift-up written with `if` for `while`: one swap at most.
_shift_up_once(i, s) ==
    IF i > 0
    THEN LET p == _parent(i)
             t == Sift(s, {p, i})
         IN IF ~(SlotOK(s, p) /\ SlotOK(s, i)) THEN UB(t)
            ELSE IF PriorityAt(s, p) > PriorityAt(s, i)
                 THEN [t EXCEPT !.q.heap = _swap(@, p, i), !.swaps = @ + 1]
                 ELSE t
    ELSE s

RECURSIVE _shift_up(_, _)
_shift_up(i, s) ==
    IF i > 0
    THEN LET p == _parent(i)
             t == Sift(s, {p, i})
         IN IF ~(SlotOK(s, p) /\ SlotOK(s, i)) THEN UB(t)
            ELSE IF PriorityAt(s, p) > PriorityAt(s, i)
                 THEN _shift_up(p, [t EXCEPT !.q.heap = _swap(@, p, i), !.swaps = @ + 1])
                 ELSE t
    ELSE s

(***************************************************************************)
(* _shift_down (lines 100-115).  The tests are `l <= q->current_size` and  *)
(* `r <= q->current_size`, so the slot at index current_size is compared   *)
(* too; && short-circuits, so a slot is read only when its index test      *)
(* passes.                                                                 *)
(***************************************************************************)
RECURSIVE _shift_down(_, _)

\* A sift-down whose right child wins a tie (<= in the second comparison).
_shift_down_right_ties(i, s) ==
    LET l == _left_child(i)
        lread == l <= s.q.current_size
        lbad == lread /\ ~(SlotOK(s, l) /\ SlotOK(s, i))
        max1 == IF lread /\ ~lbad /\ PriorityAt(s, l) < PriorityAt(s, i) THEN l ELSE i
        r == _right_child(i)
        rread == r <= s.q.current_size
        rbad == rread /\ ~(SlotOK(s, r) /\ SlotOK(s, max1))
        max_i == IF rread /\ ~rbad /\ PriorityAt(s, r) <= PriorityAt(s, max1) THEN r ELSE max1
        t == Sift(s, (IF lread THEN {l, i} ELSE {}) \cup (IF rread THEN {r, max1} ELSE {}))
    IN IF lbad THEN UB(Sift(s, {l, i}))
       ELSE IF rbad THEN UB(t)
       ELSE IF i # max_i
            THEN _shift_down(max_i, [t EXCEPT !.q.heap = _swap(@, i, max_i), !.swaps = @ + 1])
            ELSE t

\* A sift-down that never looks at the right child.
_shift_down_left_only(i, s) ==
    LET l == _left_child(i)
        lread == l <= s.q.current_size
        lbad == lread /\ ~(SlotOK(s, l) /\ SlotOK(s, i))
        max_i == IF lread /\ ~lbad /\ PriorityAt(s, l) < PriorityAt(s, i) THEN l ELSE i
        t == Sift(s, IF lread THEN {l, i} ELSE {})
    IN IF lbad THEN UB(t)
       ELSE IF i # max_i
            THEN [t EXCEPT !.q.heap = _swap(@, i, max_i), !.swaps = @ + 1]
            ELSE t

_shift_down(i, s) ==
    LET l == _left_child(i)
        lread == l <= s.q.current_size
        lbad == lread /\ ~(SlotOK(s, l) /\ SlotOK(s, i))
        max1 == IF lread /\ ~lbad /\ PriorityAt(s, l) < PriorityAt(s, i) THEN l ELSE i
        r == _right_child(i)
        rread == r <= s.q.current_size
        rbad == rread /\ ~(SlotOK(s, r) /\ SlotOK(s, max1))
        max_i == IF rread /\ ~rbad /\ PriorityAt(s, r) < PriorityAt(s, max1) THEN r ELSE max1
        t == Sift(s, (IF lread THEN {l, i} ELSE {}) \cup (IF rread THEN {r, max1} ELSE {}))
    IN IF lbad THEN UB(Sift(s, {l, i}))
       ELSE IF rbad THEN UB(t)
       ELSE IF i # max_i
            THEN _shift_down(max_i, [t EXCEPT !.q.heap = _swap(@, i, max_i), !.swaps = @ + 1])
            ELSE t

(***************************************************************************)
(* PQ_destroy_heap_nodes (lines 127-132): free(heap[i]) for i from 0 to    *)
(* heap_size - 1, in that order.  FreeEach is the for loop from index i.   *)
(***************************************************************************)
RECURSIVE FreeEach(_, _, _, _)
FreeEach(s, heap, i, heap_size) ==
    IF ~(i < heap_size) \/ ~Running(s) THEN s
    ELSE IF i \notin DOMAIN heap THEN UB(Touch(s, {i}))
    ELSE FreeEach(free(Touch(s, {i}), heap[i]), heap, i + 1, heap_size)

\* A loop that runs to heap_size inclusive: the slot after the live ones is freed too.
PQ_destroy_heap_nodes_inclusive(s, heap, heap_size) == FreeEach(s, heap, 0, heap_size + 1)

PQ_destroy_heap_nodes(s, heap, heap_size) == FreeEach(s, heap, 0, heap_size)

(***************************************************************************)
(* PQ_destroy (lines 139-146): the nodes of the live slots, then the       *)
(* backing array, then the struct.  Afterwards q dangles: the queue is     *)
(* NoQueue.  A destroy of a struct already freed is undefined behaviour.   *)
(***************************************************************************)
Destroyed(s) == \E k \in 1..Len(s.rel) : s.rel[k].kind = "struct"

\* A destroy that frees the backing array before it walks it.
PQ_destroy_array_first(s) ==
    LET s0 == Entry(s)
        s1 == [s0 EXCEPT !.rel = Append(@, Released("array", 0)), !.blocks = FreeBlock(@)]
        s2 == PQ_destroy_heap_nodes(s1, s.q.heap, s.q.current_size)
    IN IF Destroyed(s) THEN UB(s0)
       ELSE IF ~Running(s2) THEN s2
       ELSE [s2 EXCEPT !.rel = Append(@, Released("struct", 0)), !.q = NoQueue]

PQ_destroy(s) ==
    LET s0 == Entry(s)
        s1 == PQ_destroy_heap_nodes(s0, s.q.heap, s.q.current_size)
        s2 == [s1 EXCEPT !.rel = Append(@, Released("array", 0)), !.blocks = FreeBlock(@)]
    IN IF Destroyed(s) THEN UB(s0)
       ELSE IF ~Running(s1) THEN s1
       ELSE [s2 EXCEPT !.rel = Append(@, Released("struct", 0)), !.q = NoQueue]

(***************************************************************************)
(* _check_size (lines 154-164): grow by PQ_INCREMENT_SIZE slots when       *)
(* current_size + 1 > capacity.  realloc keeps the old slots and leaves    *)
(* the new ones uninitialised; when it fails the process exits.            *)
(***************************************************************************)
\* The growth test off by one (>=): the queue grows one insert early, when
\* current_size is still below capacity, and line 161 then raises current_size.
_check_size_early(s, ok) ==
    IF s.q.current_size + 1 >= s.q.capacity
    THEN IF ~ok
         THEN [s EXCEPT !.q.heap = NullHeap, !.status = "exited"]
         ELSE [s EXCEPT
                 !.q.heap = [i \in 0..(s.q.capacity + PQ_INCREMENT_SIZE - 1) |->
                               IF i \in DOMAIN s.q.heap THEN s.q.heap[i] ELSE Garbage],
                 !.q.current_size = s.q.capacity,
                 !.blocks = Realloc(@),
                 !.q.capacity = s.q.capacity + PQ_INCREMENT_SIZE]
    ELSE s

\* A growth by malloc instead of realloc: the old slots are not carried over.
_check_size_fresh(s, ok) ==
    IF s.q.current_size + 1 > s.q.capacity
    THEN IF ~ok
         THEN [s EXCEPT !.q.heap = NullHeap, !.status = "exited"]
         ELSE [s EXCEPT
                 !.q.heap = [i \in 0..(s.q.capacity + PQ_INCREMENT_SIZE - 1) |-> Garbage],
                 !.q.current_size = s.q.capacity,
                 !.blocks = Malloc(@),
                 !.q.capacity = s.q.capacity + PQ_INCREMENT_SIZE]
    ELSE s

\* The growth test off by one the other way (current_size > capacity): the
\* queue grows one insert late, after the slot at index capacity was written.
_check_size_late(s, ok) ==
    IF s.q.current_size > s.q.capacity
    THEN IF ~ok
         THEN [s EXCEPT !.q.heap = NullHeap, !.status = "exited"]
         ELSE [s EXCEPT
                 !.q.heap = [i \in 0..(s.q.capacity + PQ_INCREMENT_SIZE - 1) |->
                               IF i \in DOMAIN s.q.heap THEN s.q.heap[i] ELSE Garbage],
                 !.q.current_size = s.q.capacity,
                 !.blocks = Realloc(@),
                 !.q.capacity = s.q.capacity + PQ_INCREMENT_SIZE]
    ELSE s

\* A growth that doubles the capacity instead of adding PQ_INCREMENT_SIZE.
_check_size_doubling(s, ok) ==
    IF s.q.current_size + 1 > s.q.capacity
    THEN IF ~ok
         THEN [s EXCEPT !.q.heap = NullHeap, !.status = "exited"]
         ELSE [s EXCEPT
                 !.q.heap = [i \in 0..((2 * s.q.capacity) - 1) |->
                               IF i \in DOMAIN s.q.heap THEN s.q.heap[i] ELSE Garbage],
                 !.q.current_size = s.q.capacity,
                 !.blocks = Realloc(@),
                 !.q.capacity = 2 * s.q.capacity]
    ELSE s

_check_size(s, ok) ==
    IF s.q.current_size + 1 > s.q.capacity
    THEN IF ~ok
         THEN [s EXCEPT !.q.heap = NullHeap, !.status = "exited"]
         ELSE [s EXCEPT
                 !.q.heap = [i \in 0..(s.q.capacity + PQ_INCREMENT_SIZE - 1) |->
                               IF i \in DOMAIN s.q.heap THEN s.q.heap[i] ELSE Garbage],
                 !.q.current_size = s.q.capacity,
                 !.blocks = Realloc(@),
                 !.q.capacity = s.q.capacity + PQ_INCREMENT_SIZE]
    ELSE s

(***************************************************************************)
(* PQ_enqueue (lines 174-184).  okn: malloc of the node succeeds; okr: the *)
(* realloc of _check_size succeeds.  The node is written before            *)
(* _check_size runs, so a failed malloc is a write through NULL.           *)
(***************************************************************************)
PQ_enqueue(s, data, prioity, okn, okr) ==
    LET s0 == Entry(s)
        to_add == Len(s.nodes) + 1
        s1 == [s0 EXCEPT !.nodes = Append(@, [data |-> data, priority |-> prioity, st |-> "live"])]
        s2 == _check_size(s1, okr)
        i == s2.q.current_size
        s3 == Touch([s2 EXCEPT !.q.heap[i] = to_add], {i})
        s4 == _shift_up(i, s3)
    IN IF ~okn THEN UB(s0)
       ELSE IF ~Running(s2) THEN s2
       ELSE IF ~InArray(s2, i) THEN UB(Touch(s2, {i}))
       ELSE IF ~Running(s4) THEN s4
       ELSE [s4 EXCEPT !.q.current_size = @ + 1]

(***************************************************************************)
(* PQ_create (lines 192-199) on node memory mem.  okq, okh: the two        *)
(* mallocs succeed.  Neither result is tested: a NULL struct is written    *)
(* through, a NULL array is stored in the queue that is returned.          *)
(***************************************************************************)
PQ_create(mem, okq, okh) ==
    LET s == [q |-> NoQueue, nodes |-> mem, status |-> "ok", ret |-> NoRet, acc |-> {},
              sift |-> {}, swaps |-> 0, rel |-> <<>>, blocks |-> NoBlocks]
    IN IF ~okq THEN UB(s)
       ELSE [s EXCEPT !.q = [current_size |-> 0,
                             capacity |-> PQ_INITIAL_SIZE,
                             heap |-> IF okh THEN [i \in 0..(PQ_INITIAL_SIZE - 1) |-> Garbage]
                                             ELSE NullHeap],
                      !.blocks = IF okh THEN Malloc(@) ELSE @]

(***************************************************************************)
(* PQ_peek (lines 209-211): q->heap[0]->data, with no test of current_size.*)
(***************************************************************************)
\* A peek at the wrong end of the live range: the last element, not the root.
PQ_peek_last(s) ==
    LET i == s.q.current_size - 1
        s0 == Touch(Entry(s), {i})
    IN IF ~SlotOK(s, i) THEN UB(s0)
       ELSE [s0 EXCEPT !.ret = [kind |-> "data", v |-> DataAt(s, i)]]

PQ_peek(s) ==
    LET s0 == Touch(Entry(s), {0})
    IN IF ~SlotOK(s, 0) THEN UB(s0)
       ELSE [s0 EXCEPT !.ret = [kind |-> "data", v |-> DataAt(s, 0)]]

(***************************************************************************)
(* _PQ_dequeue (lines 220-226): the root pointer is returned, the last     *)
(* live slot is copied over the root, current_size is decremented and the  *)
(* root is shifted down.  The node is not freed and the copied slot is     *)
(* not cleared.                                                            *)
(***************************************************************************)
\* An extraction that forgets to shift the new root down.
_PQ_dequeue_no_shift(s) ==
    LET s0 == Entry(s)
        lastIdx == s.q.current_size - 1
        s1 == Touch(s0, {0, lastIdx})
        n == s.q.heap[0]
        s2 == [s1 EXCEPT !.q.heap[0] = s.q.heap[lastIdx],
                         !.q.current_size = lastIdx]
    IN IF ~(InArray(s, 0) /\ InArray(s, lastIdx)) THEN UB(s1)
       ELSE [s2 EXCEPT !.ret = [kind |-> "node", v |-> n]]

_PQ_dequeue(s) ==
    LET s0 == Entry(s)
        lastIdx == s.q.current_size - 1
        s1 == Touch(s0, {0, lastIdx})
        n == s.q.heap[0]
        s2 == [s1 EXCEPT !.q.heap[0] = s.q.heap[lastIdx],
                         !.q.current_size = lastIdx]
        s3 == _shift_down(0, s2)
    IN IF ~(InArray(s, 0) /\ InArray(s, lastIdx)) THEN UB(s1)
       ELSE IF ~Running(s3) THEN s3
       ELSE [s3 EXCEPT !.ret = [kind |-> "node", v |-> n]]

(***************************************************************************)
(* PQ_dequeue (lines 237-242): _PQ_dequeue, then the node's data is read   *)
(* and the node is freed.                                                  *)
(***************************************************************************)
PQ_dequeue(s) ==
    LET s1 == _PQ_dequeue(s)
        node == s1.ret.v
    IN IF ~Running(s1) THEN s1
       ELSE IF ~Deref(s1, node) THEN UB(s1)
       ELSE free([s1 EXCEPT !.ret = [kind |-> "data", v |-> s1.nodes[node].data]], node)

(***************************************************************************)
(* PQ_heapify (lines 276-284): PQ_create, then capacity := size and heap   *)
(* := a fresh array of size slots, then one PQ_enqueue per element of arr  *)
(* in array order.  a is the caller's array as a sequence of [data,        *)
(* priority]; ok = [q, h, a, n]: the mallocs of PQ_create and of line 279  *)
(* succeed, and n is the position of the first element whose node malloc   *)
(* fails (0: none).                                                        *)
(***************************************************************************)
RECURSIVE EnqueueAll(_, _, _, _)
EnqueueAll(s, a, i, failAt) ==
    IF i > Len(a) \/ ~Running(s) THEN s
    ELSE EnqueueAll(PQ_enqueue(s, a[i].data, a[i].priority, i # failAt, TRUE), a, i + 1, failAt)

AllOK == [q |-> TRUE, h |-> TRUE, a |-> TRUE, n |-> 0]

\* A build that walks the array from its last element to its first.
PQ_heapify_reversed(mem, a, size, ok) ==
    LET pq == PQ_create(mem, ok.q, ok.h)
        s1 == [pq EXCEPT !.q.capacity = size,
                         !.q.heap = IF ok.a THEN [i \in 0..(size - 1) |-> Garbage]
                                            ELSE NullHeap,
                         !.blocks = IF ok.a THEN Malloc(@) ELSE [@ EXCEPT !.cur = 0]]
    IN IF ~Running(pq) THEN pq
       ELSE EnqueueAll(s1, [i \in 1..size |-> a[size + 1 - i]], 1, ok.n)

\* A build that copies the elements into the array and never sifts.
PQ_heapify_copy(mem, a, size, ok) ==
    LET pq == PQ_create(mem, ok.q, ok.h)
    IN [pq EXCEPT !.nodes = mem \o [i \in 1..size |->
                                      [data |-> a[i].data, priority |-> a[i].priority,
                                       st |-> "live"]],
                  !.q = [current_size |-> size, capacity |-> size,
                         heap |-> [i \in 0..(size - 1) |-> Len(mem) + i + 1]]]

\* A build that keeps the array and the capacity PQ_create made.
PQ_heapify_default_capacity(mem, a, size, ok) ==
    LET pq == PQ_create(mem, ok.q, ok.h)
    IN IF ~Running(pq) THEN pq
       ELSE EnqueueAll(pq, SubSeq(a, 1, size), 1, ok.n)

\* A build that stores the caller's own pointers: the nodes before it in
\* memory are the caller's, the last size of them the elements of arr.
PQ_heapify_shallow(mem, a, size, ok) ==
    LET pq == PQ_create(mem, ok.q, ok.h)
    IN [pq EXCEPT !.q = [current_size |-> size, capacity |-> size,
                         heap |-> [i \in 0..(size - 1) |-> Len(mem) - size + i + 1]]]

PQ_heapify(mem, a, size, ok) ==
    LET pq == PQ_create(mem, ok.q, ok.h)
        s1 == [pq EXCEPT !.q.capacity = size,
                         !.q.heap = IF ok.a THEN [i \in 0..(size - 1) |-> Garbage]
                                            ELSE NullHeap,
                         !.blocks = IF ok.a THEN Malloc(@) ELSE [@ EXCEPT !.cur = 0]]
    IN IF ~Running(pq) THEN pq
       ELSE EnqueueAll(s1, SubSeq(a, 1, size), 1, ok.n)

(***************************************************************************)
(* The machine a call runs on, and the state it leaves.  A call that hit   *)
(* undefined behaviour may have crashed or returned anything, with the     *)
(* queue as it was or as far as the call got; the process is not followed  *)
(* past that point.                                                        *)
(***************************************************************************)
M == [q |-> q, nodes |-> nodes, status |-> status, ret |-> ret, acc |-> acc,
      sift |-> sift, swaps |-> swaps, rel |-> rel, blocks |-> blocks]

Commit(s) ==
    /\ status' = s.status
    /\ nodes' = s.nodes
    /\ acc' = s.acc
    /\ sift' = s.sift
    /\ swaps' = s.swaps
    /\ rel' = s.rel
    /\ blocks' = s.blocks
    /\ IF s.status = "ub"
       THEN /\ q' \in {q, s.q}
            /\ ret' \in {Crash} \cup {[kind |-> "data", v |-> d] : d \in Data}
       ELSE /\ q' = s.q
            /\ ret' = s.ret

\* The element a node-returning call handed out, as the caller reads it.
Elem(s, n) ==
    IF Deref(s, n)
    THEN [addr |-> n, data |-> s.nodes[n].data, priority |-> s.nodes[n].priority]
    ELSE [addr |-> n, data |-> 0, priority |-> 0]

(***************************************************************************)
(* One action per public call on q.  ph is the caller's next position.     *)
(***************************************************************************)
Enqueue(data, prioity, okn, okr, ph) ==
    /\ status = "ok"
    /\ Commit(PQ_enqueue(M, data, prioity, okn, okr))
    /\ last' = [op |-> "enqueue", pre |-> q.current_size]
    /\ phase' = ph
    /\ UNCHANGED <<out, arr, built, todo, inorder, out2>>

Peek(ph) ==
    /\ status = "ok"
    /\ Commit(PQ_peek(M))
    /\ last' = [op |-> "peek", pre |-> q.current_size]
    /\ phase' = ph
    /\ UNCHANGED <<out, arr, built, todo, inorder, out2>>

DequeueNode(ph) ==
    /\ status = "ok"
    /\ LET s == _PQ_dequeue(M)
       IN /\ Commit(s)
          /\ out' = IF Running(s) THEN Append(out, Elem(s, s.ret.v)) ELSE out
    /\ last' = [op |-> "_dequeue", pre |-> q.current_size]
    /\ phase' = ph
    /\ UNCHANGED <<arr, built, todo, inorder, out2>>

Dequeue(ph) ==
    /\ status = "ok"
    /\ LET s == PQ_dequeue(M)
           n == _PQ_dequeue(M).ret.v
       IN /\ Commit(s)
          /\ out' = IF Running(s)
                    THEN Append(out, [addr |-> n, data |-> s.ret.v,
                                      priority |-> nodes[n].priority])
                    ELSE out
    /\ last' = [op |-> "dequeue", pre |-> q.current_size]
    /\ phase' = ph
    /\ UNCHANGED <<arr, built, todo, inorder, out2>>

Destroy(ph) ==
    /\ status = "ok"
    /\ Commit(PQ_destroy(M))
    /\ last' = [op |-> "destroy", pre |-> q.current_size]
    /\ phase' = ph
    /\ UNCHANGED <<out, arr, built, todo, inorder, out2>>

(***************************************************************************)
(* Spec: a caller that keeps the preconditions (peek and extraction only   *)
(* when current_size > 0, allocations succeed), calling in any order on a  *)
(* queue made by PQ_create or by PQ_heapify.                               *)
(***************************************************************************)
Arrays(n) == UNION {[1..k -> Pairs] : k \in 0..n}

\* Arrays whose i-th element carries the payload i: payloads name the elements.
Numbered(k) == {[i \in 1..k |-> [data |-> i, priority |-> f[i]]] : f \in [1..k -> Prio]}

Made(s, a) ==
    /\ q = s.q
    /\ nodes = s.nodes
    /\ status = s.status
    /\ ret = NoRet
    /\ acc = {}
    /\ sift = {}
    /\ swaps = 0
    /\ rel = <<>>
    /\ blocks = s.blocks
    /\ arr = a
    /\ out = <<>>
    /\ built = NoQueue
    /\ todo = {}
    /\ inorder = TRUE
    /\ out2 = <<>>

Init ==
    /\ phase = "free"
    /\ \/ Made(PQ_create(<<>>, TRUE, TRUE), <<>>) /\ last = [op |-> "create", pre |-> 0]
       \/ \E a \in UNION {Numbered(k) : k \in 0..MaxArr} :
              Made(PQ_heapify(<<>>, a, Len(a), AllOK), a) /\ last = [op |-> "heapify", pre |-> 0]

Insert ==
    /\ Len(nodes) < MaxNodes
    /\ \E p \in Prio : Enqueue(Len(nodes) + 1, p, TRUE, TRUE, "free")

PeekMin == q.current_size > 0 /\ Peek("free")

ExtractMin == q.current_size > 0 /\ Dequeue("free")

Next == Insert \/ PeekMin \/ ExtractMin

Spec == Init /\ [][Next]_vars

(***************************************************************************)
(* SpecSort: the scenario of test_enqueue_dequeue_extensive and            *)
(* test_high_level_dequeue.  Up to MaxSort elements with pairwise distinct *)
(* priorities from 1..MaxSort are inserted in any order into a created     *)
(* queue, then extracted, each by either variant of dequeue.               *)
(***************************************************************************)
Created == Made(PQ_create(<<>>, TRUE, TRUE), <<>>) /\ last = [op |-> "create", pre |-> 0]

InitSort == phase = "fill" /\ Created

SortFill ==
    /\ phase = "fill"
    /\ Len(nodes) < MaxSort
    /\ \E d \in Data, p \in 1..MaxSort :
          /\ \A n \in 1..Len(nodes) : nodes[n].priority # p
          /\ Enqueue(d, p, TRUE, TRUE, "fill")

SortDrainNode ==
    /\ phase \in {"fill", "drain"}
    /\ q.current_size > 0
    /\ DequeueNode("drain")

SortDrainData ==
    /\ phase \in {"fill", "drain"}
    /\ q.current_size > 0
    /\ Dequeue("drain")

NextSort == SortFill \/ SortDrainNode \/ SortDrainData

SpecSort == InitSort /\ [][NextSort]_vars

(***************************************************************************)
(* SpecGrowth: the scenario of test_large.  More than PQ_INITIAL_SIZE      *)
(* elements (up to MaxGrow), numbered by their payloads, with priorities   *)
(* from GrowPrios, are inserted into a created queue, which is then        *)
(* emptied by one of the two variants of dequeue.                          *)
(***************************************************************************)
GrowPrios == {1, 2}

InitGrowth == phase = "fill" /\ Created

GrowFill ==
    /\ phase = "fill"
    /\ Len(nodes) < MaxGrow
    /\ \E p \in GrowPrios : Enqueue(Len(nodes) + 1, p, TRUE, TRUE, "fill")

GrowDrainNode ==
    /\ \/ phase = "fill" /\ Len(nodes) > PQ_INITIAL_SIZE
       \/ phase = "drain_node"
    /\ q.current_size > 0
    /\ DequeueNode("drain_node")

GrowDrainData ==
    /\ \/ phase = "fill" /\ Len(nodes) > PQ_INITIAL_SIZE
       \/ phase = "drain_data"
    /\ q.current_size > 0
    /\ Dequeue("drain_data")

NextGrowth == GrowFill \/ GrowDrainNode \/ GrowDrainData

SpecGrowth == InitGrowth /\ [][NextGrowth]_vars

(***************************************************************************)
(* SpecBuild: the scenario of test_heapify.  An array of up to MaxBuild    *)
(* (payload, priority) pairs is given to PQ_heapify; the same pairs are    *)
(* enqueued one at a time, in any order, into a created queue q; then q    *)
(* and the built queue are emptied with PQ_dequeue.                        *)
(***************************************************************************)
InitBuild ==
    /\ phase = "build"
    /\ \E a \in Arrays(MaxBuild) :
          /\ arr = a
          /\ todo = 1..Len(a)
    /\ LET s == PQ_create(<<>>, TRUE, TRUE)
       IN q = s.q /\ nodes = s.nodes /\ status = s.status /\ blocks = s.blocks
    /\ ret = NoRet
    /\ acc = {}
    /\ sift = {}
    /\ swaps = 0
    /\ rel = <<>>
    /\ last = [op |-> "create", pre |-> 0]
    /\ out = <<>>
    /\ built = NoQueue
    /\ inorder = TRUE
    /\ out2 = <<>>

Heapify ==
    /\ phase = "build"
    /\ status = "ok"
    /\ LET s == PQ_heapify(nodes, arr, Len(arr), AllOK)
       IN /\ built' = s.q
          /\ nodes' = s.nodes
          /\ status' = s.status
          /\ acc' = s.acc
          /\ sift' = s.sift
          /\ swaps' = s.swaps
          /\ rel' = rel \o s.rel
          /\ blocks' = blocks
    /\ ret' = NoRet
    /\ last' = [op |-> "heapify", pre |-> 0]
    /\ phase' = "insert"
    /\ UNCHANGED <<q, out, arr, todo, inorder, out2>>

BuildInsert ==
    /\ phase = "insert"
    /\ status = "ok"
    /\ \E i \in todo :
          /\ Commit(PQ_enqueue(M, arr[i].data, arr[i].priority, TRUE, TRUE))
          /\ todo' = todo \ {i}
          /\ inorder' = (inorder /\ \A k \in todo : i <= k)
    /\ last' = [op |-> "enqueue", pre |-> q.current_size]
    /\ phase' = "insert"
    /\ UNCHANGED <<out, arr, built, out2>>

DrainInserted ==
    /\ phase \in {"insert", "drain"}
    /\ todo = {}
    /\ q.current_size > 0
    /\ Dequeue("drain")

DrainBuilt ==
    /\ phase \in {"insert", "drain"}
    /\ status = "ok"
    /\ todo = {}
    /\ q.current_size = 0
    /\ built.current_size > 0
    /\ LET mb == [M EXCEPT !.q = built]
           s == PQ_dequeue(mb)
           n == _PQ_dequeue(mb).ret.v
       IN /\ built' = s.q
          /\ nodes' = s.nodes
          /\ status' = s.status
          /\ acc' = s.acc
          /\ sift' = s.sift
          /\ swaps' = s.swaps
          /\ rel' = s.rel
          /\ blocks' = blocks
          /\ ret' = s.ret
          /\ out2' = IF Running(s)
                     THEN Append(out2, [addr |-> n, data |-> s.ret.v,
                                        priority |-> nodes[n].priority])
                     ELSE out2
    /\ last' = [op |-> "dequeue_built", pre |-> built.current_size]
    /\ phase' = "drain"
    /\ UNCHANGED <<q, out, arr, todo, inorder>>

NextBuild == Heapify \/ BuildInsert \/ DrainInserted \/ DrainBuilt

SpecBuild == InitBuild /\ [][NextBuild]_vars

(***************************************************************************)
(* SpecMisuse: a caller that does not keep the preconditions: PQ_peek,     *)
(* PQ_dequeue and _PQ_dequeue are called whatever current_size is.         *)
(***************************************************************************)
InitMisuse == phase = "free" /\ Created

MisInsert ==
    /\ Len(nodes) < MaxNodes
    /\ \E p \in Prio : Enqueue(Len(nodes) + 1, p, TRUE, TRUE, "free")

MisPeek == Peek("free")

MisDequeue == Dequeue("free")

MisDequeueNode == DequeueNode("free")

NextMisuse == MisInsert \/ MisPeek \/ MisDequeue \/ MisDequeueNode

SpecMisuse == InitMisuse /\ [][NextMisuse]_vars

(***************************************************************************)
(* SpecAlloc: a caller that keeps the preconditions while any allocation   *)
(* may fail: the mallocs of PQ_create, of PQ_heapify and of PQ_enqueue     *)
(* and the realloc of _check_size.                                         *)
(***************************************************************************)
InitAlloc ==
    /\ phase = "new"
    /\ q = NoQueue
    /\ nodes = <<>>
    /\ status = "ok"
    /\ ret = NoRet
    /\ acc = {}
    /\ sift = {}
    /\ swaps = 0
    /\ rel = <<>>
    /\ blocks = NoBlocks
    /\ last = [op |-> "none", pre |-> 0]
    /\ out = <<>>
    /\ arr = <<>>
    /\ built = NoQueue
    /\ todo = {}
    /\ inorder = TRUE
    /\ out2 = <<>>

AllocCreate ==
    /\ phase = "new"
    /\ \E okq, okh \in BOOLEAN : Commit(PQ_create(nodes, okq, okh))
    /\ last' = [op |-> "create", pre |-> 0]
    /\ phase' = "free"
    /\ UNCHANGED <<out, arr, built, todo, inorder, out2>>

AllocHeapify ==
    /\ phase = "new"
    /\ \E a \in UNION {Numbered(k) : k \in 0..MaxArr} :
          /\ \E ok \in [q : BOOLEAN, h : BOOLEAN, a : BOOLEAN, n : 0..Len(a)] :
                Commit(PQ_heapify(nodes, a, Len(a), ok))
          /\ arr' = a
    /\ last' = [op |-> "heapify", pre |-> 0]
    /\ phase' = "free"
    /\ UNCHANGED <<out, built, todo, inorder, out2>>

AllocInsert ==
    /\ phase = "free"
    /\ Len(nodes) < MaxNodes
    /\ \E p \in Prio, okn, okr \in BOOLEAN : Enqueue(Len(nodes) + 1, p, okn, okr, "free")

AllocExtract ==
    /\ phase = "free"
    /\ q.current_size > 0
    /\ Dequeue("free")

NextAlloc == AllocCreate \/ AllocHeapify \/ AllocInsert \/ AllocExtract

SpecAlloc == InitAlloc /\ [][NextAlloc]_vars

(***************************************************************************)
(* SpecLife: the life of one queue.  A created queue receives elements     *)
(* numbered by their payloads, with priorities from GrowPrios, has its     *)
(* minimum extracted by either variant of dequeue while current_size > 0,  *)
(* and is destroyed once, at any point.                                    *)
(***************************************************************************)
InitLife == phase = "live" /\ Created

LifeInsert ==
    /\ phase = "live"
    /\ Len(nodes) < MaxNodes
    /\ \E p \in GrowPrios : Enqueue(Len(nodes) + 1, p, TRUE, TRUE, "live")

LifeExtract ==
    /\ phase = "live"
    /\ q.current_size > 0
    /\ Dequeue("live")

LifeExtractNode ==
    /\ phase = "live"
    /\ q.current_size > 0
    /\ DequeueNode("live")

LifeDestroy ==
    /\ phase = "live"
    /\ Destroy("destroyed")

NextLife == LifeInsert \/ LifeExtract \/ LifeExtractNode \/ LifeDestroy

SpecLife == InitLife /\ [][NextLife]_vars

(***************************************************************************)
(* SpecCopy: the scenario of test_heapify seen from the caller's array.    *)
(* The caller allocates the nodes of an array of up to MaxArr elements     *)
(* (addresses 1..Len(arr), payload i at position i), gives the array to    *)
(* PQ_heapify, then overwrites its own nodes with Scribble or frees them   *)
(* (as _destroy_random_pq does) while the built queue is used and          *)
(* destroyed.                                                              *)
(***************************************************************************)
Scribble == [data |-> 0, priority |-> 0]   \* below every priority of the array

InitCopy ==
    /\ phase = "input"
    /\ \E a \in UNION {Numbered(k) : k \in 0..MaxArr} :
          /\ arr = a
          /\ nodes = [i \in 1..Len(a) |->
                        [data |-> a[i].data, priority |-> a[i].priority, st |-> "live"]]
    /\ q = NoQueue
    /\ status = "ok"
    /\ ret = NoRet
    /\ acc = {}
    /\ sift = {}
    /\ swaps = 0
    /\ rel = <<>>
    /\ blocks = NoBlocks
    /\ last = [op |-> "none", pre |-> 0]
    /\ out = <<>>
    /\ built = NoQueue
    /\ todo = {}
    /\ inorder = TRUE
    /\ out2 = <<>>

\* The array the caller passes: arr[i]->data and arr[i]->priority as they are read.
InputArray == [i \in 1..Len(arr) |-> [data |-> nodes[i].data, priority |-> nodes[i].priority]]

CopyHeapify ==
    /\ phase = "input"
    /\ Commit(PQ_heapify(nodes, InputArray, Len(arr), AllOK))
    /\ last' = [op |-> "heapify", pre |-> 0]
    /\ phase' = "built"
    /\ UNCHANGED <<out, arr, built, todo, inorder, out2>>

CallerWrite ==
    /\ phase = "built"
    /\ status = "ok"
    /\ \E i \in 1..Len(arr) :
          /\ nodes[i].st = "live"
          /\ nodes' = [nodes EXCEPT ![i].data = Scribble.data,
                                    ![i].priority = Scribble.priority]
    /\ last' = [op |-> "caller_write", pre |-> q.current_size]
    /\ UNCHANGED <<q, status, ret, acc, sift, swaps, rel, blocks, out, phase, arr, built, todo,
                   inorder, out2>>

CallerFree ==
    /\ phase = "built"
    /\ status = "ok"
    /\ \E i \in 1..Len(arr) :
          /\ nodes[i].st = "live"
          /\ Commit(free(M, i))
    /\ last' = [op |-> "caller_free", pre |-> q.current_size]
    /\ UNCHANGED <<out, phase, arr, built, todo, inorder, out2>>

CopyExtract ==
    /\ phase = "built"
    /\ q.current_size > 0
    /\ Dequeue("built")

CopyDestroy ==
    /\ phase = "built"
    /\ Destroy("destroyed")

NextCopy == CopyHeapify \/ CallerWrite \/ CallerFree \/ CopyExtract \/ CopyDestroy

SpecCopy == InitCopy /\ [][NextCopy]_vars

(***************************************************************************)
(* SpecStorage: the backing storage over the life of a queue made by       *)
(* PQ_create or by PQ_heapify (arrays of up to MaxArr elements): inserts   *)
(* of elements numbered by their payloads, with priorities from GrowPrios, *)
(* PQ_dequeue while current_size > 0, and one PQ_destroy at any point.     *)
(***************************************************************************)
InitStorage ==
    /\ phase = "live"
    /\ \/ Created
       \/ \E a \in UNION {Numbered(k) : k \in 0..MaxArr} :
              Made(PQ_heapify(<<>>, a, Len(a), AllOK), a) /\ last = [op |-> "heapify", pre |-> 0]

StoreInsert ==
    /\ phase = "live"
    /\ Len(nodes) < MaxNodes
    /\ \E p \in GrowPrios : Enqueue(Len(nodes) + 1, p, TRUE, TRUE, "live")

StoreExtract ==
    /\ phase = "live"
    /\ q.current_size > 0
    /\ Dequeue("live")

StoreDestroy ==
    /\ phase = "live"
    /\ Destroy("destroyed")

NextStorage == StoreInsert \/ StoreExtract \/ StoreDestroy

SpecStorage == InitStorage /\ [][NextStorage]_vars

(***************************************************************************)
(* SpecLarge: test_large.  More than PQ_INITIAL_SIZE elements (up to       *)
(* MaxGrow), numbered by their payloads, with pairwise distinct priorities *)
(* from 1..MaxGrow, are inserted into a created queue; the orders tried    *)
(* are those that take, at each insert, the lowest or the highest priority *)
(* not yet used.  The queue is then emptied with _PQ_dequeue.              *)
(***************************************************************************)
Unused == (1..MaxGrow) \ {nodes[k].priority : k \in 1..Len(nodes)}

InitLarge == phase = "fill" /\ Created

LargeFill ==
    /\ phase = "fill"
    /\ Len(nodes) < MaxGrow
    /\ \E p \in Unused :
          /\ (\A u \in Unused : p <= u) \/ (\A u \in Unused : u <= p)
          /\ Enqueue(Len(nodes) + 1, p, TRUE, TRUE, "fill")

LargeDrain ==
    /\ \/ phase = "fill" /\ Len(nodes) > PQ_INITIAL_SIZE
       \/ phase = "drain"
    /\ q.current_size > 0
    /\ DequeueNode("drain")

NextLarge == LargeFill \/ LargeDrain

SpecLarge == InitLarge /\ [][NextLarge]_vars

(***************************************************************************)
(* Views of a queue used by the properties.                                *)
(***************************************************************************)
Live(qq) == 0..(qq.current_size - 1)

PairAt(qq, mem, i) == [data |-> mem[qq.heap[i]].data, priority |-> mem[qq.heap[i]].priority]

Mult(qq, mem, e) == Cardinality({i \in Live(qq) : PairAt(qq, mem, i) = e})

PairsIn(mem) == {[data |-> mem[n].data, priority |-> mem[n].priority] : n \in 1..Len(mem)}

HeapOrdered(qq, mem) ==
    \A i \in Live(qq) :
        i > 0 => mem[qq.heap[(i - 1) \div 2]].priority <= mem[qq.heap[i]].priority

MinPriority(qq, mem, i) ==
    \A k \in Live(qq) : mem[qq.heap[i]].priority <= mem[qq.heap[k]].priority

\* Under Spec no call leaves defined behaviour and every live slot holds a live node.
SpecStaysDefined == status = "ok" /\ \A i \in Live(q) : SlotOK(M, i)

(***************************************************************************)
(* C1. Heap order: in every state reached by inserts and by extractions    *)
(* made with current_size > 0, priorities with duplicates included, every  *)
(* live index i > 0 has priority(parent(i)) <= priority(i), where          *)
(* parent(i) = floor((i-1)/2).                                             *)
(***************************************************************************)
HeapOrderInvariant == HeapOrdered(q, nodes)

\* An extraction left at least three live elements, two of them with equal
\* priorities, and a root that was allocated after its left child.
HeapOrderWitness ==
    /\ last.op = "dequeue"
    /\ q.current_size >= 3
    /\ q.heap[0] > q.heap[1]
    /\ \E i, k \in Live(q) : i # k /\ PriorityAt(M, i) = PriorityAt(M, k)

(***************************************************************************)
(* C2. Minimality of peek: whenever current_size > 0 the element at index  *)
(* 0 has the minimum priority of all live elements, and a peek returns     *)
(* the payload of a live element of minimum priority.                      *)
(***************************************************************************)
PeekMinimality ==
    /\ q.current_size > 0 => MinPriority(q, nodes, 0)
    /\ last.op = "peek" =>
          /\ ret.kind = "data"
          /\ \E i \in Live(q) : ret.v = DataAt(M, i) /\ MinPriority(q, nodes, i)

\* A peek on three or more elements whose minimum was not inserted first
\* and that do not all have the same priority.
PeekMinimalityWitness ==
    /\ last.op = "peek"
    /\ q.current_size >= 3
    /\ ret.v > 1
    /\ \E i \in Live(q) : PriorityAt(M, i) > PriorityAt(M, 0)

(***************************************************************************)
(* C3. extract_min removes exactly one minimum element: the payload        *)
(* returned is that of a live element of minimum priority, and afterwards  *)
(* the multiset of live (payload, priority) pairs is the one before with   *)
(* one occurrence of that element's pair removed, nothing else changed.    *)
(***************************************************************************)
ExtractRemovesOneMin ==
    [][last'.op = "dequeue" =>
         /\ ret'.kind = "data"
         /\ \E i \in Live(q) :
               /\ ret'.v = DataAt(M, i)
               /\ MinPriority(q, nodes, i)
               /\ \A e \in PairsIn(nodes') :
                     Mult(q', nodes', e) =
                        Mult(q, nodes, e) - (IF e = PairAt(q, nodes, i) THEN 1 ELSE 0)]_vars

\* An extraction from four or more elements left a right child smaller than
\* the left one: both children were live when the new root sifted down.
ExtractRemovesOneMinWitness ==
    /\ last.op = "dequeue"
    /\ last.pre >= 4
    /\ PriorityAt(M, 0) < PriorityAt(M, 2)
    /\ PriorityAt(M, 2) < PriorityAt(M, 1)

(***************************************************************************)
(* C5. Count conservation: after k inserts and j extractions, each         *)
(* extraction made with current_size > 0, current_size = k - j; a growth   *)
(* of the storage does not change it.  Every insert allocates one node     *)
(* and every extraction appends one element to out.                        *)
(***************************************************************************)
CountConservation == q.current_size = Len(nodes) - Len(out)

\* The storage has grown, and there were inserts and an extraction.
CountConservationWitness ==
    /\ q.capacity > PQ_INITIAL_SIZE
    /\ Len(out) >= 1
    /\ q.current_size >= 2

(***************************************************************************)
(* C4. Sorted extraction: n elements with pairwise distinct priorities,    *)
(* inserted in any order into a created queue and then extracted, come out *)
(* in increasing priority: the j-th extraction returns the element whose   *)
(* priority is the j-th smallest, payload and (node variant) priority.     *)
(***************************************************************************)
RankOf(mem, n) == Cardinality({m \in 1..Len(mem) : mem[m].priority < mem[n].priority}) + 1

SortedExtraction ==
    /\ status = "ok"
    /\ phase = "drain" =>
          \A j \in 1..Len(out) :
              /\ out[j].addr \in 1..Len(nodes)
              /\ RankOf(nodes, out[j].addr) = j
              /\ out[j].data = nodes[out[j].addr].data
              /\ out[j].priority = nodes[out[j].addr].priority
    /\ (phase = "drain" /\ q.current_size = 0) => Len(out) = Len(nodes)

\* MaxSort elements, the smallest priority inserted last and the largest first,
\* were all extracted, by both variants of dequeue.
SortedExtractionWitness ==
    /\ phase = "drain"
    /\ q.current_size = 0
    /\ Len(out) = MaxSort
    /\ nodes[1].priority = MaxSort
    /\ nodes[MaxSort].priority = 1
    /\ \E n, m \in 1..Len(nodes) : nodes[n].st = "live" /\ nodes[m].st = "freed"

(***************************************************************************)
(* C7. Growth correctness: while more elements than the initial capacity   *)
(* are inserted, heap order and count conservation hold after every        *)
(* insert and every extraction, and the full extraction that follows       *)
(* returns every inserted payload exactly once, in non-decreasing          *)
(* priority order.                                                         *)
(***************************************************************************)
GrowthCorrectness ==
    /\ status = "ok"
    /\ \A i \in Live(q) : SlotOK(M, i)
    /\ HeapOrdered(q, nodes)
    /\ q.current_size = Len(nodes) - Len(out)
    /\ \A j \in 1..Len(out) :
          /\ out[j].addr \in 1..Len(nodes)
          /\ out[j].data = nodes[out[j].addr].data
          /\ \A k \in 1..Len(out) : k < j =>
                /\ out[k].priority <= out[j].priority
                /\ out[k].data # out[j].data
    /\ (phase # "fill" /\ q.current_size = 0) =>
          {out[j].data : j \in 1..Len(out)} = 1..Len(nodes)

\* More than PQ_INITIAL_SIZE elements of both priorities went in, the storage
\* grew once, and all of them came out again.
GrowthCorrectnessWitness ==
    /\ phase # "fill"
    /\ q.current_size = 0
    /\ Len(out) > PQ_INITIAL_SIZE
    /\ q.capacity = PQ_INITIAL_SIZE + PQ_INCREMENT_SIZE
    /\ \E n \in 1..Len(nodes) : nodes[n].priority # nodes[Len(nodes)].priority

(***************************************************************************)
(* C6. Empty-queue error: a peek or an extraction called with              *)
(* current_size = 0 yields an explicit empty-queue error before any slot   *)
(* of the array is accessed and leaves current_size at 0.                  *)
(***************************************************************************)
EmptyQueueError ==
    (last.op \in {"peek", "dequeue", "_dequeue"} /\ last.pre = 0) =>
        /\ status = "ok"
        /\ ret.kind = "empty_queue_error"
        /\ acc = {}
        /\ q.current_size = 0

(***************************************************************************)
(* C8. Round trip via build, as stated: PQ_heapify over a collection of    *)
(* pairs followed by a full extraction yields the same sequence of         *)
(* elements as inserting the pairs one at a time in any order and          *)
(* extracting them all.                                                    *)
(***************************************************************************)
Drained ==
    /\ phase = "drain"
    /\ todo = {}
    /\ q.current_size = 0
    /\ built.current_size = 0

PairsOf(o) == [j \in 1..Len(o) |-> [data |-> o[j].data, priority |-> o[j].priority]]

PrioritiesOf(o) == [j \in 1..Len(o) |-> o[j].priority]

Occurs(o, e) == Cardinality({j \in 1..Len(o) : [data |-> o[j].data, priority |-> o[j].priority] = e})

RoundTripSameElements == Drained => PairsOf(out2) = PairsOf(out)

(***************************************************************************)
(* C8, amended.  Both full extractions yield the same non-decreasing       *)
(* sequence of priorities and the same multiset of pairs, that of the      *)
(* input; the sequences of pairs are equal when no two input pairs have    *)
(* the same priority.  Pairs of equal priority may come out in different   *)
(* orders.                                                                 *)
(***************************************************************************)
RoundTripSamePriorities ==
    /\ status = "ok"
    /\ Drained =>
          /\ Len(out) = Len(arr)
          /\ PrioritiesOf(out2) = PrioritiesOf(out)
          /\ \A j, k \in 1..Len(out) : j < k => out[j].priority <= out[k].priority
          /\ \A e \in Pairs : Occurs(out, e) = Occurs(arr, e) /\ Occurs(out2, e) = Occurs(arr, e)
          /\ (\A j, k \in 1..Len(arr) : j # k => arr[j].priority # arr[k].priority)
                => PairsOf(out2) = PairsOf(out)

\* A full array was built, inserted in another order, and both queues were
\* emptied: the same priorities came out, with the payloads in another order.
RoundTripWitness ==
    /\ Drained
    /\ Len(arr) = MaxBuild
    /\ ~inorder
    /\ PrioritiesOf(out2) = PrioritiesOf(out)
    /\ PairsOf(out2) # PairsOf(out)

(***************************************************************************)
(* C9. Build equals repeated insertion: the queue PQ_heapify returns for   *)
(* an array of n pairs has the same count and, at every live index, the    *)
(* same (payload, priority) as a created queue into which the same pairs   *)
(* were enqueued in the same order.                                        *)
(***************************************************************************)
BuildEqualsInsertion ==
    /\ status = "ok"
    /\ (phase = "insert" /\ todo = {} /\ inorder) =>
          /\ q.current_size = Len(arr)
          /\ built.current_size = Len(arr)
          /\ \A i \in Live(q) :
                /\ SlotOK(M, i)
                /\ SlotOK([M EXCEPT !.q = built], i)
                /\ PairAt(built, nodes, i) = PairAt(q, nodes, i)

\* A full array whose last element has a smaller priority than its first
\* was built and inserted in array order; the two capacities differ.
BuildEqualsInsertionWitness ==
    /\ phase = "insert"
    /\ todo = {}
    /\ inorder
    /\ Len(arr) = MaxBuild
    /\ arr[MaxBuild].priority < arr[1].priority
    /\ built.capacity # q.capacity

(***************************************************************************)
(* C10. Allocation failure is fatal and never partial: when an allocation  *)
(* of PQ_create, PQ_enqueue or _check_size fails the process terminates;   *)
(* no call returns to a running process with a missing or too small array  *)
(* or with the heap order broken.  (A call that wrote through NULL is      *)
(* counted as not returning: status is then "ub".)                         *)
(***************************************************************************)
AllocationFailureIsFatal ==
    (status = "ok" /\ phase # "new") =>
          /\ DOMAIN q.heap = 0..(q.capacity - 1)
          /\ \A i \in Live(q) : SlotOK(M, i)
          /\ HeapOrdered(q, nodes)

(***************************************************************************)
(* C11. Order of destroy: PQ_destroy frees the node of each live slot      *)
(* 0..current_size-1 exactly once, in index order, then the backing array, *)
(* then the struct, and frees nothing else: no node that an earlier        *)
(* extraction freed or handed out.                                         *)
(***************************************************************************)
LiveNodes(qq) == {qq.heap[i] : i \in Live(qq)}

DestroyOrdering ==
    [][last'.op = "destroy" =>
          /\ status' = "ok"
          /\ \A i \in Live(q) : SlotOK(M, i)
          /\ rel' = rel \o [k \in 1..q.current_size |-> Released("node", q.heap[k - 1])]
                       \o <<Released("array", 0), Released("struct", 0)>>
          /\ \A i, j \in Live(q) : q.heap[i] = q.heap[j] => i = j
          /\ \A k \in 1..Len(out) : out[k].addr \notin LiveNodes(q)
          /\ \A n \in 1..Len(nodes) :
                nodes'[n].st = IF n \in LiveNodes(q) THEN "freed" ELSE nodes[n].st]_vars

DestroyOrderingWitness ==
    /\ status = "ok"
    /\ last.op = "destroy"
    /\ last.pre >= 2
    /\ \E k \in 1..Len(out) : nodes[out[k].addr].st = "live"
    /\ \E k \in 1..Len(out) : nodes[out[k].addr].st = "freed"

(***************************************************************************)
(* C12. Build copies its input: PQ_heapify leaves the caller's nodes as    *)
(* they were, the built queue holds none of them, and whatever the caller  *)
(* then writes to its nodes, or frees, the element i of the array is in    *)
(* the queue as the pair it was given, until it is extracted; the queue    *)
(* stays defined and heap-ordered, and no node is freed twice.             *)
(***************************************************************************)
Own(i) == Len(arr) + i     \* the queue's node for element i of arr

BuildCopiesInput ==
    phase \in {"built", "destroyed"} =>
        /\ status = "ok"
        /\ Len(nodes) = 2 * Len(arr)
        /\ last.op = "heapify" =>
               \A i \in 1..Len(arr) :
                   nodes[i] = [data |-> arr[i].data, priority |-> arr[i].priority,
                               st |-> "live"]
        /\ \A i \in 1..Len(arr) :
               /\ nodes[Own(i)].data = arr[i].data
               /\ nodes[Own(i)].priority = arr[i].priority
        /\ phase = "built" =>
               /\ \A i \in Live(q) : SlotOK(M, i) /\ q.heap[i] > Len(arr)
               /\ \A i \in 1..Len(arr) :
                      Own(i) \in LiveNodes(q) \/ \E k \in 1..Len(out) : out[k].addr = Own(i)
               /\ HeapOrdered(q, nodes)
        /\ \A k, j \in 1..Len(rel) :
               rel[k].kind = "node" /\ rel[k] = rel[j] => k = j

BuildCopiesInputWitness ==
    /\ phase = "built"
    /\ status = "ok"
    /\ last.op = "dequeue"
    /\ q.current_size >= 1
    /\ \E i \in 1..Len(arr) : nodes[i].st = "freed"
    /\ \E i \in 1..Len(arr) : nodes[i].st = "live" /\ nodes[i].priority # arr[i].priority

(***************************************************************************)
(* C13. Sift-down stays inside the live range: after an extraction every   *)
(* slot _shift_down read or swapped has an index in 0..current_size-1,     *)
(* current_size being the decremented count; the slot at index             *)
(* current_size is not accessed.                                           *)
(***************************************************************************)
SiftDownInLiveRange ==
    (status = "ok" /\ last.op \in {"dequeue", "_dequeue"} /\ last.pre > 0) =>
        sift \subseteq Live(q)

(***************************************************************************)
(* C14. Ties in sift-down.  An extraction moves the last element X to the  *)
(* root and shifts it down a path: X passes only elements of strictly      *)
(* smaller priority (it is never swapped with a child of equal priority),  *)
(* it goes to a right child only when that child was strictly smaller      *)
(* than the left one (on a tie it goes left), to a left child only when    *)
(* that child was not greater than the right one, it stops above children  *)
(* that are not smaller, and no slot off the path changes.                 *)
(***************************************************************************)
RECURSIVE Ancestors(_)
Ancestors(i) == IF i <= 0 THEN {} ELSE {_parent(i)} \cup Ancestors(_parent(i))

SiftDownTies ==
    [][(last'.op = "dequeue" /\ q.current_size >= 2) =>
          /\ status' = "ok"
          /\ \A i \in Live(q) : SlotOK(M, i)
          /\ LET X == q.heap[q.current_size - 1]
                 P(i) == nodes[q'.heap[i]].priority
             IN /\ \E pos \in Live(q') : q'.heap[pos] = X
                /\ \A pos \in Live(q') : q'.heap[pos] = X =>
                      /\ \A a \in Ancestors(pos) : P(a) < P(pos)
                      /\ \A c \in (Ancestors(pos) \cup {pos}) \ {0} :
                            /\ c = _right_child(_parent(c)) => P(_parent(c)) < P(c - 1)
                            /\ (c = _left_child(_parent(c)) /\ c + 1 \in Live(q')) =>
                                  P(_parent(c)) <= P(c + 1)
                      /\ \A c \in {_left_child(pos), _right_child(pos)} \cap Live(q') :
                            P(pos) <= P(c)
                      /\ \A i \in Live(q') \ (Ancestors(pos) \cup {pos}) :
                            q'.heap[i] = q.heap[i]]_vars

\* X went left past two children of equal priority.
SiftDownTiesWitness ==
    /\ status = "ok"
    /\ last.op = "dequeue"
    /\ q.current_size >= 3
    /\ q.heap[1] = q.heap[q.current_size]
    /\ PriorityAt(M, 0) = PriorityAt(M, 2)
    /\ PriorityAt(M, 0) < PriorityAt(M, 1)

(***************************************************************************)
(* C15. Growth step.  _check_size changes the queue only when              *)
(* current_size + 1 > capacity at the start of PQ_enqueue, and then        *)
(* current_size = capacity; it adds exactly PQ_INCREMENT_SIZE to capacity  *)
(* and leaves current_size and every slot of the old array as they were.   *)
(* In every other PQ_enqueue, and in every other call, capacity is         *)
(* unchanged; capacity never decreases.                                    *)
(***************************************************************************)
GrowthStep ==
    [][/\ q'.capacity >= q.capacity
       /\ last'.op # "enqueue" => q'.capacity = q.capacity
       /\ last'.op = "enqueue" =>
             LET grows == q.current_size + 1 > q.capacity
                 g == _check_size(M, TRUE)
             IN /\ status' = "ok"
                /\ grows => q.current_size = q.capacity
                /\ ~grows => g = M
                /\ g.q.capacity = IF grows THEN q.capacity + PQ_INCREMENT_SIZE
                                           ELSE q.capacity
                /\ g.q.current_size = q.current_size
                /\ DOMAIN g.q.heap = 0..(g.q.capacity - 1)
                /\ \A i \in DOMAIN q.heap : g.q.heap[i] = q.heap[i]
                /\ g.nodes = nodes
                /\ q'.capacity = g.q.capacity
                /\ DOMAIN q'.heap = DOMAIN g.q.heap
                /\ q'.current_size = q.current_size + 1
                /\ \A i \in DOMAIN q.heap \ acc' : q'.heap[i] = q.heap[i]
                /\ LiveNodes(q) \subseteq LiveNodes(q')]_vars

\* A queue that held elements has just grown.
GrowthStepWitness ==
    /\ status = "ok"
    /\ last.op = "enqueue"
    /\ last.pre >= 2
    /\ q.capacity = last.pre + PQ_INCREMENT_SIZE
    /\ q.current_size = last.pre + 1

(***************************************************************************)
(* C16. Bounds: in every state reached from PQ_create or PQ_heapify by     *)
(* PQ_enqueue, and by PQ_peek and PQ_dequeue called with current_size > 0, *)
(* 0 <= current_size <= capacity, the array has the indices                *)
(* 0..capacity-1, and every slot the last call read or wrote (in the call  *)
(* itself, in _shift_up, in _shift_down) has an index in 0..capacity-1.    *)
(***************************************************************************)
BoundsInvariant ==
    /\ status = "ok"
    /\ 0 <= q.current_size
    /\ q.current_size <= q.capacity
    /\ DOMAIN q.heap = 0..(q.capacity - 1)
    /\ acc \subseteq 0..(q.capacity - 1)
    /\ sift \subseteq acc

\* An extraction from a full array: the last slot of the array is read.
BoundsInvariantWitness ==
    /\ status = "ok"
    /\ last.op = "dequeue"
    /\ last.pre = q.capacity
    /\ q.capacity >= 2
    /\ (q.capacity - 1) \in sift

(***************************************************************************)
(* C17. Build sizing: PQ_heapify over n >= 0 pairs returns a queue with    *)
(* current_size = n and capacity = n, an array of exactly n slots (so none *)
(* of its n inserts grew it), and the first PQ_enqueue after the build     *)
(* grows the queue to capacity n + PQ_INCREMENT_SIZE.                      *)
(***************************************************************************)
BuildSizing ==
    /\ last.op = "heapify" =>
          /\ status = "ok"
          /\ q.current_size = Len(arr)
          /\ q.capacity = Len(arr)
          /\ DOMAIN q.heap = 0..(Len(arr) - 1)
          /\ Len(nodes) = Len(arr)
    /\ (last.op = "enqueue" /\ last.pre = Len(arr) /\ Len(nodes) = Len(arr) + 1) =>
          /\ status = "ok"
          /\ q.current_size = Len(arr) + 1
          /\ q.capacity = Len(arr) + PQ_INCREMENT_SIZE
          /\ DOMAIN q.heap = 0..(Len(arr) + PQ_INCREMENT_SIZE - 1)

BuildSizingWitness ==
    /\ status = "ok"
    /\ Len(arr) >= 2
    /\ last.op = "enqueue"
    /\ last.pre = Len(arr)
    /\ Len(nodes) = Len(arr) + 1
    /\ q.capacity = Len(arr) + PQ_INCREMENT_SIZE

(***************************************************************************)
(* C18. PQ_peek has no side effects: called with current_size > 0 it       *)
(* returns the payload of slot 0 and leaves current_size, capacity, every  *)
(* slot of the array and every node unchanged; hence a call that follows   *)
(* a peek, be it PQ_peek or PQ_dequeue, returns the payload the peek       *)
(* returned.                                                               *)
(***************************************************************************)
PeekHasNoEffect ==
    [][/\ last'.op = "peek" =>
             /\ status' = "ok"
             /\ SlotOK(M, 0)
             /\ ret' = [kind |-> "data", v |-> DataAt(M, 0)]
             /\ q' = q
             /\ nodes' = nodes
             /\ rel' = rel
             /\ out' = out
       /\ (last.op = "peek" /\ last'.op \in {"peek", "dequeue"}) =>
             /\ status' = "ok"
             /\ ret' = ret]_vars

\* A peek at a queue of several elements, some extracted before.
PeekHasNoEffectWitness ==
    /\ status = "ok"
    /\ last.op = "peek"
    /\ q.current_size >= 2
    /\ Len(out) >= 1
    /\ ret = [kind |-> "data", v |-> DataAt(M, 0)]

(***************************************************************************)
(* C19. Sift termination.  Every PQ_enqueue and PQ_dequeue returns; the    *)
(* parent of an index is below it and its children are above it, so        *)
(* _shift_up moves down the indices and _shift_down up; _shift_up makes    *)
(* at most as many swaps as the depth of the index it starts from, none    *)
(* of them off the path to the root, and _shift_down at most as many as    *)
(* the depth of the deepest live index: floor(log2(n)) for n live          *)
(* elements.                                                               *)
(***************************************************************************)
RECURSIVE Log2(_)
Log2(n) == IF n <= 1 THEN 0 ELSE 1 + Log2(n \div 2)

SiftTermination ==
    /\ status = "ok"
    /\ \A i \in 1..q.capacity : 0 <= _parent(i) /\ _parent(i) < i
    /\ \A i \in 0..q.capacity : i < _left_child(i) /\ _left_child(i) < _right_child(i)
    /\ last.op = "enqueue" =>
          /\ q.current_size = last.pre + 1
          /\ swaps <= Log2(q.current_size)
          /\ sift \subseteq {last.pre} \cup Ancestors(last.pre)
          /\ swaps < Cardinality(sift) \/ swaps = 0
    /\ last.op = "dequeue" =>
          /\ q.current_size = last.pre - 1
          /\ swaps <= Log2(q.current_size)
          /\ swaps <= Log2(last.pre)
    /\ last.op \notin {"enqueue", "dequeue"} => swaps = 0

\* An insert that went all the way up from the deepest level.
SiftTerminationWitness ==
    /\ status = "ok"
    /\ last.op = "enqueue"
    /\ swaps = 2
    /\ swaps = Log2(q.current_size)
    /\ sift = {0, 1, 3}

(***************************************************************************)
(* C20. Single release.  No node is freed twice, and a node is marked      *)
(* freed exactly when free was called on it.  While the queue lives, its   *)
(* live slots point to pairwise distinct live nodes, none freed and none   *)
(* extracted, and every node is in a live slot or was extracted.  After    *)
(* PQ_destroy every node that no extraction removed was freed once, by     *)
(* the destroy, and every node PQ_dequeue removed was freed once, by that  *)
(* call; only a node _PQ_dequeue handed to the caller is not freed.        *)
(***************************************************************************)
Frees(n) == {k \in 1..Len(rel) : rel[k] = Released("node", n)}

Extracted == {out[k].addr : k \in 1..Len(out)}

SingleRelease ==
    /\ status = "ok"
    /\ \A n \in 1..Len(nodes) :
          /\ Cardinality(Frees(n)) <= 1
          /\ nodes[n].st = "freed" <=> Frees(n) # {}
    /\ \A k \in 1..Len(rel) : rel[k].kind = "node" => rel[k].addr \in 1..Len(nodes)
    /\ Cardinality(Extracted) = Len(out)
    /\ phase = "live" =>
          /\ \A i \in Live(q) : SlotOK(M, i)
          /\ \A i, j \in Live(q) : q.heap[i] = q.heap[j] => i = j
          /\ LiveNodes(q) \cap Extracted = {}
          /\ LiveNodes(q) \cup Extracted = 1..Len(nodes)
          /\ \A n \in LiveNodes(q) : Frees(n) = {}
          /\ \A n \in 1..Len(nodes) : Frees(n) # {} => n \in Extracted
    /\ phase = "destroyed" =>
          /\ \A n \in (1..Len(nodes)) \ Extracted : Cardinality(Frees(n)) = 1
          /\ Cardinality({k \in 1..Len(rel) : rel[k].kind = "array"}) = 1
          /\ Cardinality({k \in 1..Len(rel) : rel[k].kind = "struct"}) = 1

\* A destroyed queue whose elements were all freed, some by PQ_dequeue, some by PQ_destroy.
SingleReleaseWitness ==
    /\ status = "ok"
    /\ phase = "destroyed"
    /\ Len(nodes) >= 3
    /\ Len(out) >= 1
    /\ last.pre >= 2
    /\ \A n \in 1..Len(nodes) : Cardinality(Frees(n)) = 1

(***************************************************************************)
(* C21. No leaked backing storage: every block allocated for the array of  *)
(* the queue, by PQ_create, by a growth or by PQ_heapify, is the block     *)
(* q->heap points to or has been released, and after PQ_destroy none is    *)
(* left allocated.                                                         *)
(***************************************************************************)
NoLeakedStorage ==
    status = "ok" =>
        \A b \in 1..Len(blocks.st) :
            blocks.st[b] = "live" => (phase # "destroyed" /\ b = blocks.cur)

(***************************************************************************)
(* C22. Backing array after a full drain, as test_large asserts it: after  *)
(* n > PQ_INITIAL_SIZE elements with distinct priorities were inserted     *)
(* into a created queue and all n removed with _PQ_dequeue, slot i of the  *)
(* array points to a node with the payload and the priority of the i-th    *)
(* node dequeued, for every i in 0..n-1.                                   *)
(***************************************************************************)
DrainedArrayMatches ==
    (status = "ok" /\ phase = "drain" /\ q.current_size = 0) =>
        \A i \in 0..(Len(out) - 1) :
            /\ SlotOK(M, i)
            /\ DataAt(M, i) = out[i + 1].data
            /\ PriorityAt(M, i) = out[i + 1].priority
====
